---- MODULE Spec2Model ----
(***************************************************************************)
(* gopomotime: a terminal countdown timer built on the Bubble Tea event    *)
(* loop.  The repository holds three versions of the program:              *)
(*   - src/main.go                      one-second ticks                   *)
(*   - src/unnamed/part_000:1-346       the same plus key highlighting     *)
(*   - src/unnamed/part_000:348-737     wall-clock ticks, delayed pause    *)
(* Update is modelled as a function from (model, message) to               *)
(* (model, command); the event loop delivers pending timer messages and    *)
(* key presses in any order and schedules what the command asks for.       *)
(* A message scheduled with tea.Tick is delivered at some later turn of    *)
(* the loop; how long the runtime takes to deliver it is not constrained.  *)
(***************************************************************************)
EXTENDS Integers, Sequences, FiniteSets, TLC

\* ---------------------------------------------------------------- bounds
MaxTotal == 3      \* largest total duration explored, in seconds
MaxPending == 4    \* most timer messages in flight; key presses that would exceed it are not taken
MaxTotalW == 2     \* largest total duration explored in the versions with key highlighting, in seconds
MaxNow == 5        \* the wall clock stops advancing here
Second == 2        \* clock units in a second (the wall clock is read in units of highlightDuration)
MaxLen == 5        \* longest command-line argument explored
MaxViewElapsed == 2  \* View is explored this many seconds from the start and from the end of a timer

\* ------------------------------------------------------------- constants
maxMinutes == 99
maxSeconds == 59
Minute == 60       \* time.Minute, in seconds
tickRate == 1      \* main.go: one tick advances elapsedTime by one second
height == 13
width == 29
totalSegments == 120
leftMargin == 4
highlightDuration == 1  \* wall-clock version: the unit the clock is read in
zeroTime == -1     \* time.Time{}, before every reading of the clock

VARIABLES
  m,        \* the model struct handed from Update to Update
  pending,  \* timer messages scheduled by tea.Tick and not yet delivered, per kind
  quit,     \* tea.Quit has been issued: the event loop has ended
  msg,      \* the message most recently passed to Update
  prev,     \* the model that Update call received
  cmd,      \* the command that Update call returned
  noKeys,   \* no key message has been delivered so far
  nTicks,   \* tick messages delivered while noKeys
  now,      \* the wall clock, time.Now(); only the wall-clock version reads it
  pp,       \* progress of a rapid double press of p (wall-clock version)
  quiet,    \* the user has stopped pressing keys
  args,     \* os.Args[1], a string of characters
  parse,    \* what parseDuration returned for args
  proc,     \* where main() is: "start", "parsed", "exited", "running", "drawn"
  frame,    \* what View returned for m
  h         \* the key-highlight version run beside main.go: its model, timers and last command

startup == <<args, parse, proc, frame, h>>

vars == <<m, pending, quit, msg, prev, cmd, noKeys, nTicks, now, pp, quiet, args, parse, proc, frame, h>>

\* ------------------------------------------------------------- commands
\* A command is the sequence of things the runtime is asked to do.
tickCmd == <<"tick">>
blinkCmd == <<"blink">>
highlightCmd == <<"highlight">>
Quit == <<"quit">>
nil == <<>>

Batch(c1, c2) == c1 \o c2

Count(c, kind) == Cardinality({i \in DOMAIN c : c[i] = kind})

\* The timer messages in flight after command c has been started.
Schedule(p, c) ==
  [kind \in DOMAIN p |-> p[kind] + Count(c, kind)]

Total(p) == p.tick + p.blink + p.highlight

\* ---------------------------------------------------- src/main.go Update
\* Variant: clears the elapsed time but neither restarts the session nor ticking.
UpdateKeyR_NoRestart(mm) ==
  [m |-> [mm EXCEPT !.elapsedTime = 0], cmd |-> nil]

\* Variant: reset rewinds and restarts the session but schedules no tick.
UpdateKeyR_NoTick(mm) ==
  [m |-> [mm EXCEPT !.isRunning = TRUE, !.isPaused = FALSE, !.elapsedTime = 0],
   cmd |-> nil]

\* Variant: reset rewinds the timer and leaves it stopped.
UpdateKeyR_Stop(mm) ==
  [m |-> [mm EXCEPT !.isRunning = FALSE, !.isPaused = FALSE, !.elapsedTime = 0],
   cmd |-> nil]

UpdateKeyR(mm) ==
  [m |-> [mm EXCEPT !.isRunning = TRUE, !.isPaused = FALSE, !.elapsedTime = 0],
   cmd |-> tickCmd]

\* Variant: resuming and starting forget to schedule the next tick.
UpdateKeyP_NoTick(mm) ==
  IF mm.isRunning
  THEN [m |-> [mm EXCEPT !.isPaused = ~mm.isPaused], cmd |-> nil]
  ELSE [m |-> [mm EXCEPT !.isRunning = TRUE, !.isPaused = FALSE], cmd |-> nil]

\* Variant: starting a timer that is not running also rewinds it.
UpdateKeyP_Rewind(mm) ==
  IF mm.isRunning
  THEN LET m1 == [mm EXCEPT !.isPaused = ~mm.isPaused]
       IN  IF ~m1.isPaused
           THEN [m |-> m1, cmd |-> tickCmd]
           ELSE [m |-> m1, cmd |-> nil]
  ELSE [m |-> [mm EXCEPT !.isRunning = TRUE, !.isPaused = FALSE, !.elapsedTime = 0],
        cmd |-> tickCmd]

\* Variant: p toggles the paused flag whether or not the timer is running.
UpdateKeyP_ToggleAlways(mm) ==
  LET m1 == [mm EXCEPT !.isPaused = ~mm.isPaused]
  IN  IF ~m1.isPaused
      THEN [m |-> m1, cmd |-> tickCmd]
      ELSE [m |-> m1, cmd |-> nil]

UpdateKeyP(mm) ==
  IF mm.isRunning
  THEN LET m1 == [mm EXCEPT !.isPaused = ~mm.isPaused]
       IN  IF ~m1.isPaused
           THEN [m |-> m1, cmd |-> tickCmd]
           ELSE [m |-> m1, cmd |-> nil]
  ELSE [m |-> [mm EXCEPT !.isRunning = TRUE, !.isPaused = FALSE], cmd |-> tickCmd]

\* Variant: q returns no command.
UpdateKeyQ_NoQuit(mm) == [m |-> mm, cmd |-> nil]

UpdateKeyQ(mm) == [m |-> mm, cmd |-> Quit]

\* Variant: no elapsedTime < totalTime guard and no clamp, finish on equality.
UpdateTick_Naive(mm) ==
  IF mm.isRunning /\ ~mm.isPaused
  THEN LET e  == mm.elapsedTime + tickRate
           m1 == IF e = mm.totalTime
                 THEN [mm EXCEPT !.isRunning = FALSE, !.isPaused = FALSE, !.elapsedTime = e]
                 ELSE [mm EXCEPT !.elapsedTime = e]
       IN  IF m1.isRunning
           THEN [m |-> m1, cmd |-> tickCmd]
           ELSE [m |-> m1, cmd |-> blinkCmd]
  ELSE [m |-> mm, cmd |-> blinkCmd]

\* Variant: the tick that finishes the timer returns no command.
UpdateTick_NoBlink(mm) ==
  IF mm.isRunning /\ ~mm.isPaused /\ mm.elapsedTime < mm.totalTime
  THEN LET e  == mm.elapsedTime + tickRate
           m1 == IF e >= mm.totalTime
                 THEN [mm EXCEPT !.isRunning = FALSE, !.isPaused = FALSE,
                                 !.elapsedTime = mm.totalTime]
                 ELSE [mm EXCEPT !.elapsedTime = e]
       IN  IF m1.isRunning
           THEN [m |-> m1, cmd |-> tickCmd]
           ELSE [m |-> m1, cmd |-> nil]
  ELSE [m |-> mm, cmd |-> blinkCmd]

\* Variant: the finish test is > instead of >=.
UpdateTick_OffByOne(mm) ==
  IF mm.isRunning /\ ~mm.isPaused /\ mm.elapsedTime < mm.totalTime
  THEN LET e  == mm.elapsedTime + tickRate
           m1 == IF e > mm.totalTime
                 THEN [mm EXCEPT !.isRunning = FALSE, !.isPaused = FALSE,
                                 !.elapsedTime = mm.totalTime]
                 ELSE [mm EXCEPT !.elapsedTime = e]
       IN  IF m1.isRunning
           THEN [m |-> m1, cmd |-> tickCmd]
           ELSE [m |-> m1, cmd |-> blinkCmd]
  ELSE [m |-> mm, cmd |-> blinkCmd]

\* Variant: the guard does not look at isPaused.
UpdateTick_IgnorePause(mm) ==
  IF mm.isRunning /\ mm.elapsedTime < mm.totalTime
  THEN LET e  == mm.elapsedTime + tickRate
           m1 == IF e >= mm.totalTime
                 THEN [mm EXCEPT !.isRunning = FALSE, !.isPaused = FALSE,
                                 !.elapsedTime = mm.totalTime]
                 ELSE [mm EXCEPT !.elapsedTime = e]
       IN  IF m1.isRunning
           THEN [m |-> m1, cmd |-> tickCmd]
           ELSE [m |-> m1, cmd |-> blinkCmd]
  ELSE [m |-> mm, cmd |-> blinkCmd]

\* Variant: reaching the total clamps the time but leaves the session running.
UpdateTick_NoStop(mm) ==
  IF mm.isRunning /\ ~mm.isPaused /\ mm.elapsedTime < mm.totalTime
  THEN LET e  == mm.elapsedTime + tickRate
           m1 == IF e >= mm.totalTime
                 THEN [mm EXCEPT !.elapsedTime = mm.totalTime]
                 ELSE [mm EXCEPT !.elapsedTime = e]
       IN  IF m1.isRunning
           THEN [m |-> m1, cmd |-> tickCmd]
           ELSE [m |-> m1, cmd |-> blinkCmd]
  ELSE [m |-> mm, cmd |-> blinkCmd]

UpdateTick(mm) ==
  IF mm.isRunning /\ ~mm.isPaused /\ mm.elapsedTime < mm.totalTime
  THEN LET e  == mm.elapsedTime + tickRate
           m1 == IF e >= mm.totalTime
                 THEN [mm EXCEPT !.isRunning = FALSE, !.isPaused = FALSE,
                                 !.elapsedTime = mm.totalTime]
                 ELSE [mm EXCEPT !.elapsedTime = e]
       IN  IF m1.isRunning
           THEN [m |-> m1, cmd |-> tickCmd]
           ELSE [m |-> m1, cmd |-> blinkCmd]
  ELSE [m |-> mm, cmd |-> blinkCmd]

\* Variant: the blink timer is always re-armed.
UpdateBlink_Always(mm) ==
  [m |-> [mm EXCEPT !.blink = ~mm.blink], cmd |-> blinkCmd]

UpdateBlink(mm) ==
  LET m1 == [mm EXCEPT !.blink = ~mm.blink]
  IN  IF ~m1.isRunning /\ m1.elapsedTime >= m1.totalTime
      THEN [m |-> m1, cmd |-> blinkCmd]
      ELSE [m |-> m1, cmd |-> nil]

Update(mm, k) ==
  CASE k = "ctrl+c" -> UpdateKeyQ(mm)
    [] k = "q"      -> UpdateKeyQ(mm)
    [] k = "r"      -> UpdateKeyR(mm)
    [] k = "p"      -> UpdateKeyP(mm)
    [] k = "tick"   -> UpdateTick(mm)
    [] k = "blink"  -> UpdateBlink(mm)
    [] OTHER        -> [m |-> mm, cmd |-> nil]

\* main() builds the initial model from the parsed duration.
NewModel(duration) ==
  [totalTime |-> duration, elapsedTime |-> 0,
   isRunning |-> TRUE, isPaused |-> FALSE, blink |-> TRUE]

\* model.Init: tea.Batch(tickCmd(), blinkCmd())
InitCmd == Batch(tickCmd, blinkCmd)

NoPending == [tick |-> 0, blink |-> 0, highlight |-> 0]

RunPause(mm) == <<mm.isRunning, mm.isPaused>>

NoPress == [phase |-> 0, orig |-> <<TRUE, FALSE>>]

Keys == {"ctrl+c", "q", "r", "p", "x"}

NoParse == [duration |-> 0, err |-> FALSE]
NoFrame == <<>>
NoH == <<>>

\* main() has parsed its argument and handed the model to tea.NewProgram;
\* no other version of the program runs beside it.
Started ==
  /\ args = <<>>
  /\ parse = NoParse
  /\ proc = "running"
  /\ frame = NoFrame
  /\ h = NoH

Init ==
  /\ \E d \in 0..MaxTotal : m = NewModel(d)
  /\ pending = Schedule(NoPending, InitCmd)
  /\ quit = FALSE
  /\ msg = "init"
  /\ prev = m
  /\ cmd = InitCmd
  /\ noKeys = TRUE
  /\ nTicks = 0
  /\ now = 0
  /\ pp = NoPress
  /\ quiet = FALSE
  /\ Started

\* One turn of the event loop: Update runs on message k, the model it
\* returns replaces the old one and its command is started.
Step(k, p) ==
  LET r == Update(m, k)
  IN  /\ Total(Schedule(p, r.cmd)) <= MaxPending
      /\ m' = r.m
      /\ pending' = Schedule(p, r.cmd)
      /\ quit' = (Count(r.cmd, "quit") > 0)
      /\ msg' = k
      /\ prev' = m
      /\ cmd' = r.cmd
      /\ noKeys' = (noKeys /\ k \notin Keys)
      /\ nTicks' = IF noKeys /\ k = "tick" THEN nTicks + 1 ELSE nTicks
      /\ UNCHANGED <<now, pp, quiet, startup>>

Tick == ~quit /\ pending.tick > 0 /\ Step("tick", [pending EXCEPT !.tick = @ - 1])

Blink == ~quit /\ pending.blink > 0 /\ Step("blink", [pending EXCEPT !.blink = @ - 1])

KeyP == ~quit /\ Step("p", pending)

KeyR == ~quit /\ Step("r", pending)

KeyQ == ~quit /\ Step("q", pending)

KeyCtrlC == ~quit /\ Step("ctrl+c", pending)

KeyOther == ~quit /\ Step("x", pending)

Next == Tick \/ Blink \/ KeyP \/ KeyR \/ KeyQ \/ KeyCtrlC \/ KeyOther

Spec == Init /\ [][Next]_vars

\* The same program when the user stops pressing keys at some point and
\* the runtime goes on delivering every timer message it has scheduled.
Quiesce ==
  /\ ~quit
  /\ ~quiet
  /\ quiet' = TRUE
  /\ UNCHANGED <<m, pending, quit, msg, prev, cmd, noKeys, nTicks, now, pp, startup>>

KeyLive == ~quiet /\ (KeyP \/ KeyR \/ KeyQ \/ KeyCtrlC \/ KeyOther)

NextLive == Tick \/ Blink \/ KeyLive \/ Quiesce

SpecLive == Init /\ [][NextLive]_vars /\ WF_vars(Tick) /\ WF_vars(Blink)

\* ------------------------------------------- src/main.go parseDuration
\* A string is a sequence of one-character strings.
ParseChars == {"0", "1", "5", "6", "9", ":", "+", "-", "a"}

Strings == UNION {[1..n -> ParseChars] : n \in 0..MaxLen}

Digits == {"0", "1", "2", "3", "4", "5", "6", "7", "8", "9"}

\* ch - '0'
DigitVal(c) ==
  CASE c = "0" -> 0 [] c = "1" -> 1 [] c = "2" -> 2 [] c = "3" -> 3 [] c = "4" -> 4
    [] c = "5" -> 5 [] c = "6" -> 6 [] c = "7" -> 7 [] c = "8" -> 8 [] c = "9" -> 9

\* strings.Split(str, sep) for a one-character separator: the pieces
\* between the separators, one more than there are separators.
RECURSIVE Split(_, _)
Split(str, sep) ==
  LET at == {j \in 1..Len(str) : str[j] = sep}
  IN  IF at # {}
      THEN LET i == CHOOSE j \in at : \A k \in at : j <= k
           IN  <<SubSeq(str, 1, i - 1)>> \o Split(SubSeq(str, i + 1, Len(str)), sep)
      ELSE <<str>>

\* The digit loop of strconv.Atoi: n = n*10 + (ch - '0'), a syntax error
\* on the first byte that is not a digit.
RECURSIVE AtoiDigits(_, _)
AtoiDigits(str, n) ==
  IF str = <<>> THEN [n |-> n, err |-> FALSE]
  ELSE IF Head(str) \notin Digits THEN [n |-> 0, err |-> TRUE]
  ELSE AtoiDigits(Tail(str), n * 10 + DigitVal(Head(str)))

\* strconv.Atoi on a string short enough for its fast path: an optional
\* leading sign, then at least one digit and nothing but digits.
Atoi(str) ==
  IF str = <<>> THEN [n |-> 0, err |-> TRUE]
  ELSE LET signed == Head(str) \in {"-", "+"}
           body   == IF signed THEN Tail(str) ELSE str
           r      == AtoiDigits(body, 0)
       IN  IF body = <<>> \/ r.err THEN [n |-> 0, err |-> TRUE]
           ELSE IF Head(str) = "-" THEN [n |-> 0 - r.n, err |-> FALSE]
           ELSE r

\* Variant: the seconds bound is tested with >=.
parseDuration_SecondsOffByOne(input) ==
  LET parts == Split(input, ":")
  IN  IF Len(parts) # 2 THEN [duration |-> 0, err |-> TRUE]
      ELSE LET minutes == Atoi(parts[1])
               seconds == Atoi(parts[2])
           IN  IF minutes.err \/ minutes.n < 0 \/ minutes.n > maxMinutes
               THEN [duration |-> 0, err |-> TRUE]
               ELSE IF seconds.err \/ seconds.n < 0 \/ seconds.n >= maxSeconds
               THEN [duration |-> 0, err |-> TRUE]
               ELSE [duration |-> minutes.n * Minute + seconds.n, err |-> FALSE]

\* The duration is counted in seconds.
parseDuration(input) ==
  LET parts == Split(input, ":")
  IN  IF Len(parts) # 2 THEN [duration |-> 0, err |-> TRUE]
      ELSE LET minutes == Atoi(parts[1])
               seconds == Atoi(parts[2])
           IN  IF minutes.err \/ minutes.n < 0 \/ minutes.n > maxMinutes
               THEN [duration |-> 0, err |-> TRUE]
               ELSE IF seconds.err \/ seconds.n < 0 \/ seconds.n > maxSeconds
               THEN [duration |-> 0, err |-> TRUE]
               ELSE [duration |-> minutes.n * Minute + seconds.n, err |-> FALSE]

\* main() from its start, with one command-line argument.
InitParse ==
  /\ args \in Strings
  /\ parse = NoParse
  /\ proc = "start"
  /\ frame = NoFrame
  /\ h = NoH
  /\ m = NewModel(0)
  /\ pending = NoPending
  /\ quit = FALSE
  /\ msg = "init"
  /\ prev = m
  /\ cmd = nil
  /\ noKeys = TRUE
  /\ nTicks = 0
  /\ now = 0
  /\ pp = NoPress
  /\ quiet = FALSE

ParseArg ==
  /\ proc = "start"
  /\ parse' = parseDuration(args)
  /\ proc' = "parsed"
  /\ UNCHANGED <<m, pending, quit, msg, prev, cmd, noKeys, nTicks, now, pp, quiet, args, frame, h>>

\* fmt.Println("Error:", err); os.Exit(1)
MainExit ==
  /\ proc = "parsed"
  /\ parse.err
  /\ proc' = "exited"
  /\ UNCHANGED <<m, pending, quit, msg, prev, cmd, noKeys, nTicks, now, pp, quiet, args, parse, frame, h>>

\* The model is built and the program started.
MainRun ==
  /\ proc = "parsed"
  /\ ~parse.err
  /\ m' = NewModel(parse.duration)
  /\ prev' = m'
  /\ cmd' = InitCmd
  /\ pending' = Schedule(NoPending, InitCmd)
  /\ proc' = "running"
  /\ UNCHANGED <<quit, msg, noKeys, nTicks, now, pp, quiet, args, parse, frame, h>>

NextParse == ParseArg \/ MainExit \/ MainRun

SpecParse == InitParse /\ [][NextParse]_vars

\* ------------------------------------- src/main.go View and drawCircle
\* Rendered text is a sequence of cells, one per character, each with the
\* lipgloss style it was rendered in ("" for unstyled text).
Render(style, str) == [i \in 1..Len(str) |-> [ch |-> str[i], st |-> style]]

Plain(str) == Render("", str)

\* strings.Repeat(c, n) for a one-character string
Repeat(c, n) == [i \in 1..n |-> c]

NL == [ch |-> "\n", st |-> ""]

\* strings.Join(lines, sep)
RECURSIVE Join(_, _)
Join(lines, sep) ==
  IF lines = <<>> THEN <<>>
  ELSE IF Len(lines) = 1 THEN lines[1]
  ELSE lines[1] \o sep \o Join(Tail(lines), sep)

IsSpace(c) == c.ch \in {" ", "\n"}

\* strings.TrimSpace
TrimSpace(str) ==
  LET ink == {i \in 1..Len(str) : ~IsSpace(str[i])}
  IN  IF ink = {} THEN <<>>
      ELSE SubSeq(str, CHOOSE i \in ink : \A j \in ink : i <= j,
                       CHOOSE i \in ink : \A j \in ink : i >= j)

DigitChar(d) ==
  CASE d = 0 -> "0" [] d = 1 -> "1" [] d = 2 -> "2" [] d = 3 -> "3" [] d = 4 -> "4"
    [] d = 5 -> "5" [] d = 6 -> "6" [] d = 7 -> "7" [] d = 8 -> "8" [] d = 9 -> "9"

\* fmt.Sprintf("%02d", n) for 0 <= n < 100
Sprintf02d(n) == <<DigitChar(n \div 10), DigitChar(n % 10)>>

\* The countdown text: remaining time, minutes % 60 and seconds % 60.
Timer(mm) ==
  LET rem       == mm.totalTime - mm.elapsedTime
      remaining == IF rem < 0 THEN 0 ELSE rem
      minutes   == (remaining \div Minute) % 60
      seconds   == remaining % 60
  IN  Sprintf02d(minutes) \o <<":">> \o Sprintf02d(seconds)

\* progress as a fraction num/den, 0 when totalTime is 0, capped at 1
Progress(mm) ==
  IF mm.totalTime > 0
  THEN IF mm.elapsedTime > mm.totalTime
       THEN [num |-> 1, den |-> 1]
       ELSE [num |-> mm.elapsedTime, den |-> mm.totalTime]
  ELSE [num |-> 0, den |-> 1]

donutTemplate == <<
  Repeat(" ", 10) \o Repeat("*", 9) \o Repeat(" ", 10),
  Repeat(" ", 6) \o Repeat("*", 17) \o Repeat(" ", 6),
  Repeat(" ", 4) \o Repeat("*", 21) \o Repeat(" ", 4),
  Repeat(" ", 2) \o Repeat("*", 10) \o Repeat(" ", 5) \o Repeat("*", 10) \o Repeat(" ", 2),
  Repeat(" ", 1) \o Repeat("*", 8) \o Repeat(" ", 11) \o Repeat("*", 8) \o Repeat(" ", 1),
  Repeat(" ", 1) \o Repeat("*", 6) \o Repeat(" ", 15) \o Repeat("*", 6) \o Repeat(" ", 1),
  Repeat(" ", 1) \o Repeat("*", 6) \o Repeat(" ", 5) \o <<"m", "m", ":", "s", "s">>
    \o Repeat(" ", 5) \o Repeat("*", 6) \o Repeat(" ", 1),
  Repeat(" ", 1) \o Repeat("*", 6) \o Repeat(" ", 15) \o Repeat("*", 6) \o Repeat(" ", 1),
  Repeat(" ", 1) \o Repeat("*", 7) \o Repeat(" ", 13) \o Repeat("*", 7) \o Repeat(" ", 1),
  Repeat(" ", 2) \o Repeat("*", 10) \o Repeat(" ", 5) \o Repeat("*", 10) \o Repeat(" ", 2),
  Repeat(" ", 4) \o Repeat("*", 21) \o Repeat(" ", 4),
  Repeat(" ", 6) \o Repeat("*", 17) \o Repeat(" ", 6),
  Repeat(" ", 10) \o Repeat("*", 9) \o Repeat(" ", 10) >>

\* tan(3j degrees) * 10^6 for j = 1..29: the boundaries between segments
\* inside a quarter turn.
TanTable == <<
  52408, 105104, 158384, 212557, 267949, 324920, 383864, 445229, 509525, 577350,
  649408, 726543, 809784, 900404, 1000000, 1110613, 1234897, 1376382, 1539865,
  1732051, 1962611, 2246037, 2605089, 3077684, 3732051, 4704630, 6313752,
  9514364, 19081137 >>

Abs(n) == IF n < 0 THEN 0 - n ELSE n

\* An angle counted in segments (2*Pi/totalSegments): fl is its floor and
\* whole tells whether the angle is a whole number of segments.  For a
\* vector with integer coordinates that is so on the axes and the
\* diagonals only.
Quarter(ady, adx) ==
  IF adx = 0 THEN 30
  ELSE Cardinality({j \in 1..29 : TanTable[j] * adx <= ady * 1000000})

\* math.Atan2(dy, dx), in (-Pi, Pi]
Atan2(dy, dx) ==
  LET q     == Quarter(Abs(dy), Abs(dx))
      whole == dy = 0 \/ dx = 0 \/ Abs(dy) = Abs(dx)
      up    == IF whole THEN q ELSE q + 1
  IN  [fl |-> IF dx >= 0
              THEN (IF dy >= 0 THEN q ELSE 0 - up)
              ELSE (IF dy >= 0 THEN 60 - up ELSE q - 60),
       whole |-> whole]

\* Variant: negative angles are left as they are.
Normalize_Missing(angle) == angle

\* if angle < 0 { angle += 2 * math.Pi }
Normalize(angle) ==
  IF angle.fl < 0 THEN [angle EXCEPT !.fl = @ + totalSegments] ELSE angle

\* int(x): truncation towards zero
ToInt(angle) ==
  IF angle.fl < 0 /\ ~angle.whole THEN angle.fl + 1 ELSE angle.fl

\* Variant: dx is taken from the cell to the centre.
Segment_Mirrored(x, y) ==
  LET centerX == width \div 2
      centerY == height \div 2
      dx == centerX - x
      dy == y - centerY
      a  == Atan2(dy, dx)
      angle == [a EXCEPT !.fl = @ + totalSegments \div 4]
  IN  ToInt(Normalize(angle))

\* The segment of the cell at column x, row y (both counted from 0).
Segment(x, y) ==
  LET centerX == width \div 2
      centerY == height \div 2
      dx == x - centerX
      dy == y - centerY
      a  == Atan2(dy, dx)
      angle == [a EXCEPT !.fl = @ + totalSegments \div 4]
  IN  ToInt(Normalize(angle))

Cells == (0..(width - 1)) \X (0..(height - 1))

RingCells == {c \in Cells : donutTemplate[c[2] + 1][c[1] + 1] = "*"}

SegmentOf == [c \in RingCells |-> Segment(c[1], c[2])]

\* segment < int(progress * float64(totalSegments))
Elapsed(segment, progress) ==
  segment < (progress.num * totalSegments) \div progress.den

drawCircle(progress, timer) ==
  LET timerStart == (width - Len(timer)) \div 2
      timerEnd   == timerStart + Len(timer)
      cell(x, y) ==
        IF donutTemplate[y + 1][x + 1] = "*"
        THEN IF Elapsed(SegmentOf[<<x, y>>], progress)
             THEN [ch |-> "*", st |-> "white"]
             ELSE [ch |-> "*", st |-> "red"]
        ELSE IF y = height \div 2 /\ x >= timerStart /\ x < timerEnd
        THEN [ch |-> timer[x - timerStart + 1], st |-> "white"]
        ELSE [ch |-> " ", st |-> ""]
      lines == [y \in 1..height |-> [x \in 1..width |-> cell(x - 1, y - 1)]]
  IN  Join(lines, <<NL>>)

finishedLiteral == <<"T", "i", "m", "e", "r", " ", "f", "i", "n", "i", "s", "h", "e", "d", "!">>
controlsLiteral == <<" ", "[", "q", "]", "u", "i", "t", " ", "[", "r", "]", "e", "s", "e", "t", " ", "[", "p", "]", "a", "u", "s", "e">>
stoppedLiteral ==
  <<"T", "i", "m", "e", "r", " ", "s", "t", "o", "p", "p", "e", "d", ".", " ", "\n">>
  \o <<" ", " ", " ", " ", "[", "q", "]", "u", "i", "t", " ", "[", "r", "]", "e", "s", "e", "t", " ", "[", "p", "]", "a", "u", "s", "e">>
pausedLiteral ==
  <<"T", "i", "m", "e", "r", " ", "p", "a", "u", "s", "e", "d", ".", " ", "\n">>
  \o <<" ", " ", " ", " ", "[", "q", "]", "u", "i", "t", " ", "[", "r", "]", "e", "s", "e", "t", " ", "u", "n", "[", "p", "]", "a", "u", "s", "e">>
runningLiteral ==
  <<" ", "\n">>
  \o <<" ", " ", " ", " ", "[", "q", "]", "u", "i", "t", " ", "[", "r", "]", "e", "s", "e", "t", " ", "[", "p", "]", "a", "u", "s", "e">>

\* The status text before centering.
Status(mm) ==
  IF ~mm.isRunning
  THEN IF mm.elapsedTime >= mm.totalTime
       THEN LET padding == (width - Len(finishedLiteral)) \div 2
                finishedText ==
                  IF mm.blink
                  THEN Plain(Repeat(" ", padding)) \o Render("green", finishedLiteral)
                         \o Plain(Repeat(" ", padding))
                  ELSE Plain(Repeat(" ", width))
                controlsPadding == (width - Len(controlsLiteral)) \div 2
                controls == Plain(Repeat(" ", controlsPadding)) \o Plain(controlsLiteral)
            IN  finishedText \o <<NL>> \o controls
       ELSE Plain(stoppedLiteral)
  ELSE IF mm.isPaused THEN Plain(pausedLiteral)
  ELSE Plain(runningLiteral)

\* Variant: the padding is computed from the untrimmed line.
CenterPadding_Untrimmed(line) ==
  LET padding == (width - Len(line)) \div 2
  IN  IF padding < 0 THEN 0 ELSE padding

\* (width - len(strings.TrimSpace(line))) / 2, at least 0
CenterPadding(line) ==
  LET padding == (width - Len(TrimSpace(line))) \div 2
  IN  IF padding < 0 THEN 0 ELSE padding

CenteredStatus(mm) ==
  LET statusLines == Split(Status(mm), NL)
      centered(i) ==
        IF ~(i = 1 /\ ~mm.isRunning /\ mm.elapsedTime >= mm.totalTime)
        THEN Plain(Repeat(" ", CenterPadding(statusLines[i]))) \o statusLines[i]
        ELSE statusLines[i]
  IN  Join([i \in 1..Len(statusLines) |-> centered(i)], <<NL>>)

\* The text View returns, cut into the rows the terminal shows
\* (circleStyle has no properties: Render adds nothing on the left).
View(mm) ==
  LET circle == drawCircle(Progress(mm), Timer(mm))
      leftPadding == Plain(Repeat(" ", leftMargin))
      output == Join(Split(circle, NL), <<NL>> \o leftPadding)
                  \o <<NL>> \o leftPadding \o CenteredStatus(mm)
  IN  Split(leftPadding \o output, NL)

\* The timers View is explored on, and how far into them.
ViewTotals ==
  {mi * Minute + se : mi \in {0, 1, 60, maxMinutes}, se \in {0, 1, maxSeconds}}

ViewElapsed(total) ==
  {e \in 0..total : e <= MaxViewElapsed \/ total - e <= MaxViewElapsed \/ 2 * e \in {total - 2, total}}

\* The states of the timer main.go can be in, as far as View can tell.
ViewModels ==
  {[totalTime |-> t, elapsedTime |-> e, isRunning |-> f[1], isPaused |-> f[2], blink |-> b] :
     <<t, e>> \in {te \in ViewTotals \X (0..(2 * MaxViewElapsed + 1) \cup ViewTotals
                                         \cup {t2 - k : t2 \in ViewTotals, k \in 0..MaxViewElapsed}
                                         \cup {t2 \div 2 - k : t2 \in ViewTotals, k \in 0..1}) :
                     te[2] \in ViewElapsed(te[1])},
     f \in {<<TRUE, FALSE>>, <<TRUE, TRUE>>, <<FALSE, FALSE>>}, b \in BOOLEAN}

InitView ==
  /\ m \in {mm \in ViewModels : ~mm.isRunning => mm.elapsedTime = mm.totalTime /\ mm.totalTime > 0}
  /\ frame = View(m)
  /\ h = NoH
  /\ proc = "drawn"
  /\ args = <<>>
  /\ parse = NoParse
  /\ pending = NoPending
  /\ quit = FALSE
  /\ msg = "init"
  /\ prev = m
  /\ cmd = nil
  /\ noKeys = TRUE
  /\ nTicks = 0
  /\ now = 0
  /\ pp = NoPress
  /\ quiet = FALSE

\* Update on message k, then the frame is drawn again.  What View
\* returns does not depend on the timer messages in flight.
Redraw(k) ==
  LET r == Update(m, k)
  IN  /\ r.m.elapsedTime \in ViewElapsed(r.m.totalTime)
      /\ m' = r.m
      /\ frame' = View(r.m)
      /\ msg' = k
      /\ prev' = m
      /\ cmd' = r.cmd
      /\ UNCHANGED <<pending, quit, noKeys, nTicks, now, pp, quiet, args, parse, proc, h>>

ViewTick == proc = "drawn" /\ Redraw("tick")

ViewBlink == proc = "drawn" /\ Redraw("blink")

ViewKeyP == proc = "drawn" /\ Redraw("p")

ViewKeyR == proc = "drawn" /\ Redraw("r")

NextView == ViewTick \/ ViewBlink \/ ViewKeyP \/ ViewKeyR

SpecView == InitView /\ [][NextView]_vars

\* ------------------------------- src/unnamed/part_000:348-737 (wall clock)
\* Update of the wall-clock version; t is the reading of time.Now().
UpdateKeyCtrlCW(mm) == [m |-> mm, cmd |-> Quit]

UpdateKeyQW(mm, t) ==
  [m |-> [mm EXCEPT !.highlightKey = "q", !.highlightUntil = t + highlightDuration],
   cmd |-> Batch(highlightCmd, Quit)]

UpdateKeyRW(mm, t) ==
  LET wasRunning == mm.isRunning /\ ~mm.isPaused
      m1 == [mm EXCEPT !.isRunning = TRUE, !.isPaused = FALSE, !.elapsedTime = 0,
                       !.startTime = t,
                       !.highlightKey = "r", !.highlightUntil = t + highlightDuration]
  IN  IF wasRunning
      THEN [m |-> m1, cmd |-> highlightCmd]
      ELSE [m |-> m1, cmd |-> Batch(highlightCmd, tickCmd)]

UpdateKeyPW(mm, t) ==
  [m |-> [mm EXCEPT !.highlightKey = "p", !.highlightUntil = t + highlightDuration,
                    !.pendingPauseToggle = TRUE],
   cmd |-> highlightCmd]

UpdateTickW(mm, t) ==
  IF mm.isRunning /\ ~mm.isPaused /\ mm.elapsedTime < mm.totalTime
  THEN LET e  == t - mm.startTime
           m1 == IF e >= mm.totalTime
                 THEN [mm EXCEPT !.isRunning = FALSE, !.isPaused = FALSE,
                                 !.elapsedTime = mm.totalTime]
                 ELSE [mm EXCEPT !.elapsedTime = e]
       IN  IF m1.isRunning
           THEN [m |-> m1, cmd |-> tickCmd]
           ELSE [m |-> m1, cmd |-> blinkCmd]
  ELSE [m |-> mm, cmd |-> blinkCmd]

UpdateBlinkW(mm) ==
  LET m1 == [mm EXCEPT !.blink = ~mm.blink]
  IN  IF ~m1.isRunning /\ m1.elapsedTime >= m1.totalTime
      THEN [m |-> m1, cmd |-> blinkCmd]
      ELSE [m |-> m1, cmd |-> nil]

\* Variant: resuming does not move the start timestamp.
UpdateHighlightW_NoRebase(mm, t) ==
  LET m1 == [mm EXCEPT !.highlightKey = "", !.highlightUntil = zeroTime]
  IN  IF m1.pendingPauseToggle
      THEN IF m1.isRunning
           THEN LET m2 == [m1 EXCEPT !.isPaused = ~m1.isPaused]
                IN  IF ~m2.isPaused
                    THEN [m |-> [m2 EXCEPT !.pendingPauseToggle = FALSE], cmd |-> tickCmd]
                    ELSE [m |-> [m2 EXCEPT !.pendingPauseToggle = FALSE], cmd |-> nil]
           ELSE [m |-> [m1 EXCEPT !.isRunning = TRUE, !.isPaused = FALSE,
                                  !.startTime = t - m1.elapsedTime,
                                  !.pendingPauseToggle = FALSE],
                 cmd |-> nil]
      ELSE [m |-> m1, cmd |-> nil]

UpdateHighlightW(mm, t) ==
  LET m1 == [mm EXCEPT !.highlightKey = "", !.highlightUntil = zeroTime]
  IN  IF m1.pendingPauseToggle
      THEN IF m1.isRunning
           THEN LET m2 == [m1 EXCEPT !.isPaused = ~m1.isPaused]
                IN  IF ~m2.isPaused
                    THEN [m |-> [m2 EXCEPT !.startTime = t - m2.elapsedTime,
                                           !.pendingPauseToggle = FALSE],
                          cmd |-> tickCmd]
                    ELSE [m |-> [m2 EXCEPT !.pendingPauseToggle = FALSE], cmd |-> nil]
           ELSE [m |-> [m1 EXCEPT !.isRunning = TRUE, !.isPaused = FALSE,
                                  !.startTime = t - m1.elapsedTime,
                                  !.pendingPauseToggle = FALSE],
                 cmd |-> nil]
      ELSE [m |-> m1, cmd |-> nil]

UpdateW(mm, k, t) ==
  CASE k = "ctrl+c"    -> UpdateKeyCtrlCW(mm)
    [] k = "q"         -> UpdateKeyQW(mm, t)
    [] k = "r"         -> UpdateKeyRW(mm, t)
    [] k = "p"         -> UpdateKeyPW(mm, t)
    [] k = "tick"      -> UpdateTickW(mm, t)
    [] k = "blink"     -> UpdateBlinkW(mm)
    [] k = "highlight" -> UpdateHighlightW(mm, t)
    [] OTHER           -> [m |-> mm, cmd |-> nil]

\* main() of the wall-clock version.
NewModelW(duration, t) ==
  [totalTime |-> duration, elapsedTime |-> 0,
   isRunning |-> TRUE, isPaused |-> FALSE, blink |-> TRUE,
   highlightKey |-> "", highlightUntil |-> zeroTime, pendingPauseToggle |-> FALSE,
   startTime |-> t]

InitW ==
  /\ now = 0
  /\ \E d \in 0..MaxTotalW : m = NewModelW(d * Second, now)
  /\ pending = Schedule(NoPending, InitCmd)
  /\ quit = FALSE
  /\ msg = "init"
  /\ prev = m
  /\ cmd = InitCmd
  /\ noKeys = TRUE
  /\ nTicks = 0
  /\ pp = NoPress
  /\ quiet = FALSE
  /\ Started

\* Bookkeeping for a rapid double press: phase 1 after a first p pressed
\* with no highlight expiry outstanding, 2 after a second p pressed
\* before any expiry was processed, 3 and 4 after the first and second
\* expiry.  Anything else that touches isRunning or isPaused ends it.
Press(k, p, r) ==
  CASE k = "p" /\ pp.phase \in {0, 4} /\ p.highlight = 0 ->
         [phase |-> 1, orig |-> RunPause(m)]
    [] k = "p" /\ pp.phase = 1 -> [pp EXCEPT !.phase = 2]
    [] k = "highlight" /\ pp.phase \in {2, 3} -> [pp EXCEPT !.phase = @ + 1]
    [] k \in {"tick", "blink", "x"} /\ pp.phase \in {1, 2, 3}
         /\ RunPause(r.m) = RunPause(m) -> pp
    [] OTHER -> NoPress

StepW(k, p) ==
  LET r == UpdateW(m, k, now)
  IN  /\ Total(Schedule(p, r.cmd)) <= MaxPending
      /\ m' = r.m
      /\ pending' = Schedule(p, r.cmd)
      /\ quit' = (Count(r.cmd, "quit") > 0)
      /\ msg' = k
      /\ prev' = m
      /\ cmd' = r.cmd
      /\ noKeys' = (noKeys /\ k \notin Keys)
      /\ pp' = Press(k, p, r)
      /\ UNCHANGED <<now, nTicks, quiet, startup>>

TickW == ~quit /\ pending.tick > 0 /\ StepW("tick", [pending EXCEPT !.tick = @ - 1])

BlinkW == ~quit /\ pending.blink > 0 /\ StepW("blink", [pending EXCEPT !.blink = @ - 1])

HighlightW ==
  ~quit /\ pending.highlight > 0 /\ StepW("highlight", [pending EXCEPT !.highlight = @ - 1])

KeyPW == ~quit /\ StepW("p", pending)

KeyRW == ~quit /\ StepW("r", pending)

KeyQW == ~quit /\ StepW("q", pending)

KeyCtrlCW == ~quit /\ StepW("ctrl+c", pending)

KeyOtherW == ~quit /\ StepW("x", pending)

\* Time passes between two turns of the event loop.
ClockW ==
  /\ ~quit
  /\ now < MaxNow
  /\ now' = now + 1
  /\ UNCHANGED <<m, pending, quit, msg, prev, cmd, noKeys, nTicks, pp, quiet, startup>>

NextW ==
  \/ TickW \/ BlinkW \/ HighlightW
  \/ KeyPW \/ KeyRW \/ KeyQW \/ KeyCtrlCW \/ KeyOtherW
  \/ ClockW

SpecW == InitW /\ [][NextW]_vars

\* ------------------- key-highlight version (src/unnamed/part_000:1-346)
\* Its Update, run on the same messages as main.go's.  t is time.Now().
UpdateKeyCtrlCH(mm) == [m |-> mm, cmd |-> Quit]

UpdateKeyQH(mm, t) ==
  [m |-> [mm EXCEPT !.highlightKey = "q", !.highlightUntil = t + highlightDuration],
   cmd |-> Batch(highlightCmd, Quit)]

UpdateKeyRH(mm, t) ==
  [m |-> [mm EXCEPT !.isRunning = TRUE, !.isPaused = FALSE, !.elapsedTime = 0,
                    !.highlightKey = "r", !.highlightUntil = t + highlightDuration],
   cmd |-> Batch(highlightCmd, tickCmd)]

\* Variant: resuming only starts the highlight timer.
UpdateKeyPH_NoTick(mm, t) ==
  LET m0 == [mm EXCEPT !.highlightKey = "p", !.highlightUntil = t + highlightDuration]
  IN  IF m0.isRunning
      THEN [m |-> [m0 EXCEPT !.isPaused = ~m0.isPaused], cmd |-> highlightCmd]
      ELSE [m |-> [m0 EXCEPT !.isRunning = TRUE, !.isPaused = FALSE],
            cmd |-> Batch(highlightCmd, tickCmd)]

UpdateKeyPH(mm, t) ==
  LET m0 == [mm EXCEPT !.highlightKey = "p", !.highlightUntil = t + highlightDuration]
  IN  IF m0.isRunning
      THEN LET m1 == [m0 EXCEPT !.isPaused = ~m0.isPaused]
           IN  IF ~m1.isPaused
               THEN [m |-> m1, cmd |-> Batch(highlightCmd, tickCmd)]
               ELSE [m |-> m1, cmd |-> highlightCmd]
      ELSE [m |-> [m0 EXCEPT !.isRunning = TRUE, !.isPaused = FALSE],
            cmd |-> Batch(highlightCmd, tickCmd)]

UpdateTickH(mm) ==
  IF mm.isRunning /\ ~mm.isPaused /\ mm.elapsedTime < mm.totalTime
  THEN LET e  == mm.elapsedTime + tickRate
           m1 == IF e >= mm.totalTime
                 THEN [mm EXCEPT !.isRunning = FALSE, !.isPaused = FALSE,
                                 !.elapsedTime = mm.totalTime]
                 ELSE [mm EXCEPT !.elapsedTime = e]
       IN  IF m1.isRunning
           THEN [m |-> m1, cmd |-> tickCmd]
           ELSE [m |-> m1, cmd |-> blinkCmd]
  ELSE [m |-> mm, cmd |-> blinkCmd]

UpdateBlinkH(mm) ==
  LET m1 == [mm EXCEPT !.blink = ~mm.blink]
  IN  IF ~m1.isRunning /\ m1.elapsedTime >= m1.totalTime
      THEN [m |-> m1, cmd |-> blinkCmd]
      ELSE [m |-> m1, cmd |-> nil]

UpdateHighlightH(mm) ==
  [m |-> [mm EXCEPT !.highlightKey = "", !.highlightUntil = zeroTime], cmd |-> nil]

UpdateH(mm, k, t) ==
  CASE k = "ctrl+c"    -> UpdateKeyCtrlCH(mm)
    [] k = "q"         -> UpdateKeyQH(mm, t)
    [] k = "r"         -> UpdateKeyRH(mm, t)
    [] k = "p"         -> UpdateKeyPH(mm, t)
    [] k = "tick"      -> UpdateTickH(mm)
    [] k = "blink"     -> UpdateBlinkH(mm)
    [] k = "highlight" -> UpdateHighlightH(mm)
    [] OTHER           -> [m |-> mm, cmd |-> nil]

\* main() of the key-highlight version.
NewModelH(duration) ==
  [totalTime |-> duration, elapsedTime |-> 0,
   isRunning |-> TRUE, isPaused |-> FALSE, blink |-> TRUE,
   highlightKey |-> "", highlightUntil |-> zeroTime]

\* Both programs are started with the same argument.
InitH ==
  /\ now = 0
  /\ \E d \in 0..MaxTotalW :
       /\ m = NewModel(d)
       /\ h = [m |-> NewModelH(d), pending |-> Schedule(NoPending, InitCmd),
               prev |-> NewModelH(d), cmd |-> InitCmd, quit |-> FALSE]
  /\ pending = Schedule(NoPending, InitCmd)
  /\ quit = FALSE
  /\ msg = "init"
  /\ prev = m
  /\ cmd = InitCmd
  /\ noKeys = TRUE
  /\ nTicks = 0
  /\ pp = NoPress
  /\ quiet = FALSE
  /\ args = <<>>
  /\ parse = NoParse
  /\ proc = "running"
  /\ frame = NoFrame

\* The same message k is handed to both programs; p and ph are their
\* timer messages in flight once k has been taken out.
StepH(k, p, ph) ==
  LET r  == Update(m, k)
      rh == UpdateH(h.m, k, now)
  IN  /\ Total(Schedule(p, r.cmd)) <= MaxPending
      /\ Total(Schedule(ph, rh.cmd)) <= MaxPending
      /\ m' = r.m
      /\ pending' = Schedule(p, r.cmd)
      /\ quit' = (Count(r.cmd, "quit") > 0)
      /\ h' = [m |-> rh.m, pending |-> Schedule(ph, rh.cmd), prev |-> h.m,
               cmd |-> rh.cmd, quit |-> (Count(rh.cmd, "quit") > 0)]
      /\ msg' = k
      /\ prev' = m
      /\ cmd' = r.cmd
      /\ noKeys' = (noKeys /\ k \notin Keys)
      /\ UNCHANGED <<now, nTicks, pp, quiet, args, parse, proc, frame>>

Live == ~quit /\ ~h.quit

TickH ==
  /\ Live /\ pending.tick > 0 /\ h.pending.tick > 0
  /\ StepH("tick", [pending EXCEPT !.tick = @ - 1], [h.pending EXCEPT !.tick = @ - 1])

BlinkH ==
  /\ Live /\ pending.blink > 0 /\ h.pending.blink > 0
  /\ StepH("blink", [pending EXCEPT !.blink = @ - 1], [h.pending EXCEPT !.blink = @ - 1])

KeyPH == Live /\ StepH("p", pending, h.pending)

KeyRH == Live /\ StepH("r", pending, h.pending)

KeyQH == Live /\ StepH("q", pending, h.pending)

KeyCtrlCH == Live /\ StepH("ctrl+c", pending, h.pending)

KeyOtherH == Live /\ StepH("x", pending, h.pending)

\* A highlight expiry is delivered; main.go has no such message and
\* takes no step.
HighlightH ==
  /\ Live /\ h.pending.highlight > 0
  /\ LET rh == UpdateH(h.m, "highlight", now)
         ph == [h.pending EXCEPT !.highlight = @ - 1]
     IN  /\ h' = [m |-> rh.m, pending |-> Schedule(ph, rh.cmd), prev |-> h.m,
                  cmd |-> rh.cmd, quit |-> (Count(rh.cmd, "quit") > 0)]
         /\ msg' = "highlight"
         /\ prev' = m
         /\ cmd' = nil
  /\ UNCHANGED <<m, pending, quit, noKeys, nTicks, now, pp, quiet, args, parse, proc, frame>>

\* Time passes between two turns of the event loop.
ClockH ==
  /\ Live
  /\ now < MaxNow
  /\ now' = now + 1
  /\ UNCHANGED <<m, pending, quit, msg, prev, cmd, noKeys, nTicks, pp, quiet, startup>>

NextH ==
  \/ TickH \/ BlinkH \/ HighlightH
  \/ KeyPH \/ KeyRH \/ KeyQH \/ KeyCtrlCH \/ KeyOtherH
  \/ ClockH

SpecH == InitH /\ [][NextH]_vars

\* ------------------------------------------------------------ vocabulary
Running(mm) == mm.isRunning /\ ~mm.isPaused
Paused(mm) == mm.isRunning /\ mm.isPaused
Finished(mm) == ~mm.isRunning /\ mm.elapsedTime = mm.totalTime

Min(a, b) == IF a <= b THEN a ELSE b

\* ------------------------------------------------- claims about main.go

\* C1: in every reachable state of main.go, 0 <= elapsedTime <= totalTime.
C1_ElapsedWithinTotal ==
  0 <= m.elapsedTime /\ m.elapsedTime <= m.totalTime

\* A tick has just brought a positive total to its end.
C1_Witness ==
  /\ msg = "tick"
  /\ prev.elapsedTime < m.elapsedTime
  /\ m.elapsedTime = m.totalTime
  /\ m.totalTime > 1

\* C2: in every reachable state of main.go, elapsedTime == totalTime
\* implies isRunning == false.
C2_TerminalImpliesStopped ==
  m.elapsedTime = m.totalTime => ~m.isRunning

\* C3: the r key, pressed in any state, yields elapsedTime == 0,
\* isRunning, not isPaused, the same totalTime, and schedules a tick.
C3_Reset ==
  msg = "r" =>
    /\ m.elapsedTime = 0
    /\ m.isRunning
    /\ ~m.isPaused
    /\ m.totalTime = prev.totalTime
    /\ Count(cmd, "tick") = 1

\* r has just been pressed on a finished timer.
C3_Witness ==
  msg = "r" /\ Finished(prev) /\ prev.elapsedTime > 0

\* C5: a tick processed while running, not paused and short of the total
\* sets elapsedTime to min(elapsedTime + 1s, totalTime); on reaching the
\* total it clears isRunning and isPaused and schedules no tick, otherwise
\* it stays running and schedules exactly one tick.
C5_TickAdvances ==
  (msg = "tick" /\ Running(prev) /\ prev.elapsedTime < prev.totalTime) =>
    /\ m.elapsedTime = Min(prev.elapsedTime + tickRate, prev.totalTime)
    /\ m.totalTime = prev.totalTime
    /\ IF m.elapsedTime = m.totalTime
       THEN ~m.isRunning /\ ~m.isPaused /\ Count(cmd, "tick") = 0
       ELSE m.isRunning /\ Count(cmd, "tick") = 1

\* The tick that finishes a timer of more than one second.
C5_Witness ==
  /\ msg = "tick"
  /\ Running(prev)
  /\ prev.elapsedTime > 0
  /\ prev.elapsedTime < prev.totalTime
  /\ m.elapsedTime = m.totalTime

\* C6: a tick processed while Finished or Paused changes no field of the
\* model and schedules no tick.
C6_TickIgnored ==
  (msg = "tick" /\ (Finished(prev) \/ Paused(prev))) =>
    /\ m = prev
    /\ Count(cmd, "tick") = 0

\* A tick has just been delivered to a paused timer with time left.
C6_Witness ==
  msg = "tick" /\ Paused(prev) /\ prev.elapsedTime < prev.totalTime

\* C7: with a total of N >= 1 seconds and no key pressed, the timer is
\* Running with elapsedTime = k after k < N ticks and Finished after N
\* ticks; a tick delivered to a Finished timer changes nothing; r pressed
\* on a Finished timer yields Running with elapsedTime = 0.
C7_EndToEnd ==
  /\ (noKeys /\ m.totalTime >= 1) =>
       /\ nTicks * tickRate < m.totalTime =>
            Running(m) /\ m.elapsedTime = nTicks * tickRate
       /\ nTicks * tickRate >= m.totalTime => Finished(m)
  /\ (msg = "tick" /\ Finished(prev)) => m = prev
  /\ (msg = "r" /\ Finished(prev)) => Running(m) /\ m.elapsedTime = 0

\* N = totalTime >= 2 ticks and no key: the timer has just finished.
C7_Witness ==
  /\ noKeys
  /\ msg = "tick"
  /\ m.totalTime >= 2
  /\ nTicks * tickRate = m.totalTime
  /\ Finished(m)

\* C8: two consecutive p presses, with nothing processed in between,
\* return (isRunning, isPaused) to what it was before the first press.
C8_TwoPressesRestore ==
  [][(msg = "p" /\ msg' = "p") => RunPause(m') = RunPause(prev)]_vars

\* C10: p never changes elapsedTime or totalTime; while Running it sets
\* isPaused, keeps isRunning and schedules no tick; while Paused it clears
\* isPaused and schedules a tick; while not running it sets isRunning,
\* clears isPaused and schedules a tick.
C10_PauseKey ==
  msg = "p" =>
    /\ m.elapsedTime = prev.elapsedTime
    /\ m.totalTime = prev.totalTime
    /\ Running(prev) => m.isPaused /\ m.isRunning /\ Count(cmd, "tick") = 0
    /\ Paused(prev) => ~m.isPaused /\ Count(cmd, "tick") = 1
    /\ ~prev.isRunning => m.isRunning /\ ~m.isPaused /\ Count(cmd, "tick") = 1

\* p has just resumed a paused timer part-way through.
C10_Witness ==
  /\ msg = "p"
  /\ Paused(prev)
  /\ prev.elapsedTime > 0
  /\ prev.elapsedTime < prev.totalTime

\* ------------------------------------ claims about the wall-clock version

\* C4: after an r key event on a timer with totalTime > 0, at least one
\* tick is pending (reset restarts ticking, so the timer goes on to finish).
C4_ResetRestartsTicking ==
  (msg = "r" /\ m.totalTime > 0) => pending.tick >= 1

\* C9: when two p presses are processed before the first one's highlight
\* expiry, then after both expiries (isRunning, isPaused) is what it was
\* before the first press.
C9_RapidPressesUndo ==
  pp.phase = 4 => RunPause(m) = pp.orig

\* ------------------------------------------ more claims about main.go

\* C11: across every event, elapsedTime does not decrease unless the
\* event is an r key press, and it increases only on a tick processed
\* while Running.
C11_ElapsedMonotone ==
  /\ msg # "r" => m.elapsedTime >= prev.elapsedTime
  /\ m.elapsedTime > prev.elapsedTime => msg = "tick" /\ Running(prev)

\* p has just been pressed on a finished timer and the time stayed put.
C11_Witness ==
  msg = "p" /\ Finished(prev) /\ prev.elapsedTime > 0 /\ m.elapsedTime = prev.elapsedTime

\* C12: a blink event flips blink, leaves the other fields alone, and
\* schedules the next blink exactly when the timer is Finished.
C12_Blink ==
  msg = "blink" =>
    /\ m = [prev EXCEPT !.blink = ~prev.blink]
    /\ Count(cmd, "tick") = 0
    /\ IF ~m.isRunning /\ m.elapsedTime >= m.totalTime
       THEN Count(cmd, "blink") = 1
       ELSE Count(cmd, "blink") = 0

\* A blink has just been processed on a timer that is still running.
C12_Witness ==
  msg = "blink" /\ Running(prev) /\ prev.elapsedTime < prev.totalTime

\* C13: whenever the timer is Finished a blink event is pending, and once
\* the user presses no more keys the finished message keeps turning
\* visible and blank again.
C13_FinishedKeepsBlinking ==
  /\ [](Finished(m) => pending.blink >= 1)
  /\ []((quiet /\ Finished(m)) => (<>m.blink /\ <>~m.blink))

\* No more keys, and a blink has just toggled the finished message.
C13_Witness ==
  quiet /\ msg = "blink" /\ Finished(prev) /\ Finished(m) /\ ~noKeys

IsNumber(str) == str # <<>> /\ \A i \in 1..Len(str) : str[i] \in Digits

\* The number a string of digits denotes.
RECURSIVE Value(_)
Value(str) ==
  IF str = <<>> THEN 0
  ELSE 10 * Value(SubSeq(str, 1, Len(str) - 1)) + DigitVal(str[Len(str)])

\* str is min ":" sec with min a number in 0..99 and sec a number in 0..59.
IsMMSS(str, min, sec) ==
  /\ IsNumber(min) /\ Value(min) \in 0..99
  /\ IsNumber(sec) /\ Value(sec) \in 0..59
  /\ str = min \o <<":">> \o sec

Fields(str) ==
  {<<SubSeq(str, 1, i - 1), SubSeq(str, i + 1, Len(str))>> : i \in 1..Len(str)}

WellFormed(str) == \E f \in Fields(str) : IsMMSS(str, f[1], f[2])

\* C14: for an input made of a minutes number in 0..99, one ':' and a
\* seconds number in 0..59, parseDuration returns minutes*60 + seconds
\* seconds and no error; every accepted duration is within 0..5999 seconds.
C14_ParseAccepts ==
  proc # "start" =>
    /\ \A f \in Fields(args) :
         IsMMSS(args, f[1], f[2]) =>
           ~parse.err /\ parse.duration = Value(f[1]) * 60 + Value(f[2])
    /\ ~parse.err => parse.duration \in 0..5999

\* "99:59" has been parsed and the model built with 5999 seconds.
C14_Witness ==
  /\ proc = "running"
  /\ args = <<"9", "9", ":", "5", "9">>
  /\ m.totalTime = 5999

\* C15: every input that is not of that form (separators, ranges, empty
\* field, any character that is not a digit, such as a sign) gets an error
\* and the zero duration, and main exits without building the model.
C15_ParseRejects ==
  (proc # "start" /\ ~WellFormed(args)) =>
    parse.err /\ parse.duration = 0 /\ proc # "running"

\* ------------------------------------- claims about View and drawCircle
\* The cell the terminal shows for column x, row y of the donut.
FrameCell(c) == frame[c[2] + 1][leftMargin + c[1] + 1]

White(c) == FrameCell(c) = [ch |-> "*", st |-> "white"]

Red(c) == FrameCell(c) = [ch |-> "*", st |-> "red"]

\* The five characters in the middle of the centre row.
ShownTimer == [i \in 1..5 |-> FrameCell(<<11 + i, 6>>).ch]

\* The two-digit decimal numeral of n.
Decimal2(n) == CHOOSE str \in [1..2 -> Digits] : Value(str) = n

\* C16: the countdown View shows is the remaining time as MM:SS with
\* MM = floor(remaining seconds / 60) and SS = remaining seconds mod 60.
C16_TimerShowsRemaining ==
  frame # NoFrame =>
    LET remaining == m.totalTime - m.elapsedTime
    IN  ShownTimer = Decimal2(remaining \div 60) \o <<":">> \o Decimal2(remaining % 60)

\* C17: with no time elapsed no ring cell is in the elapsed colour, with
\* all of a positive total elapsed every ring cell is; every ring cell's
\* segment index lies in 0..119.
C17_RingEmptyAndFull ==
  frame # NoFrame =>
    /\ m.elapsedTime = 0 => \A c \in RingCells : Red(c)
    /\ (m.elapsedTime = m.totalTime /\ m.totalTime > 0) => \A c \in RingCells : White(c)
    /\ \A c \in RingCells : SegmentOf[c] \in 0..119

\* A finished 99:59 timer is on screen.
C17_Witness ==
  /\ frame # NoFrame
  /\ m.totalTime = 5999
  /\ m.elapsedTime = m.totalTime
  /\ \A c \in RingCells : White(c)

\* Sector k of the clock face: the directions from k*3 to (k+1)*3 degrees,
\* measured clockwise from straight up, on a screen whose rows grow downwards.
InSector(k, dx, dy) ==
  LET j == k % 30
      u == CASE k \div 30 = 0 -> 0 - dy [] k \div 30 = 1 -> dx
             [] k \div 30 = 2 -> dy [] k \div 30 = 3 -> 0 - dx
      r == CASE k \div 30 = 0 -> dx [] k \div 30 = 1 -> dy
             [] k \div 30 = 2 -> 0 - dx [] k \div 30 = 3 -> 0 - dy
  IN  /\ u > 0 /\ r >= 0
      /\ j > 0 => TanTable[j] * u <= r * 1000000
      /\ j < 29 => r * 1000000 < TanTable[j + 1] * u

ClockSegment(c) == CHOOSE k \in 0..119 : InSector(k, c[1] - 14, c[2] - 6)

FloorProgress(mm) ==
  IF mm.totalTime = 0 THEN 0 ELSE (Min(mm.elapsedTime, mm.totalTime) * 120) \div mm.totalTime

WhiteCells(f) == {c \in RingCells : f[c[2] + 1][leftMargin + c[1] + 1].st = "white"}

StatusRows == {i \in 1..Len(frame) : i > height}

Ink(row) == {i \in 1..Len(row) : row[i].ch # " "}

\* The blank columns left and right of the text of a row, within the
\* width columns that start after the left margin.
Before(row) == (CHOOSE i \in Ink(row) : \A j \in Ink(row) : i <= j) - 1 - leftMargin

After(row) == leftMargin + width - (CHOOSE i \in Ink(row) : \A j \in Ink(row) : i >= j)

\* C19: every line of the status block is centred within the 29 columns
\* of the display: the blank columns before and after its text differ by
\* at most one.
C19_StatusCentred ==
  frame # NoFrame =>
    /\ StatusRows = {height + 1, height + 2}
    /\ \A i \in StatusRows :
         Ink(frame[i]) # {} =>
           /\ Before(frame[i]) >= 0
           /\ After(frame[i]) >= 0
           /\ Before(frame[i]) - After(frame[i]) \in {-1, 0, 1}

\* A paused timer is on screen, with its status line and its controls line.
C19_Witness ==
  /\ frame # NoFrame
  /\ Paused(m)
  /\ Before(frame[height + 1]) = 8 /\ After(frame[height + 1]) = 8
  /\ Before(frame[height + 2]) = 2 /\ After(frame[height + 2]) = 3

\* ------------------------------ further claims about main.go's event loop

\* C23: with totalTime > 0, a Finished timer stays Finished under every
\* event except an r key press.
C23_FinishedStays ==
  (msg # "r" /\ prev.totalTime > 0 /\ Finished(prev)) => Finished(m)

\* C24: at most one tick event is pending in every reachable state.
C24_OneTickPending == pending.tick <= 1

\* C25: whenever the timer is Running with time left, a tick event is
\* pending; once the user presses no more keys, such a timer eventually
\* reaches Finished.
C25_NeverStalls ==
  /\ []((Running(m) /\ m.elapsedTime < m.totalTime) => pending.tick >= 1)
  /\ ((quiet /\ Running(m) /\ m.elapsedTime < m.totalTime) ~> Finished(m))

\* Keys were pressed, the user has stopped, and a tick has now finished the timer.
C25_Witness ==
  /\ quiet
  /\ ~noKeys
  /\ msg = "tick"
  /\ Running(prev)
  /\ Finished(m)
  /\ m.totalTime >= 2

C27_PausedImpliesRunning == m.isPaused => m.isRunning

\* p has just paused a timer part-way through.
C27_Witness ==
  /\ msg = "p"
  /\ Running(prev)
  /\ m.isPaused
  /\ m.elapsedTime > 0
  /\ m.elapsedTime < m.totalTime

\* C28: at most one blink event is pending in every reachable state.
C28_OneBlinkPending == pending.blink <= 1

\* ------------------------- further claims about the wall-clock version

\* C22: a tick processed while Running sets elapsedTime to
\* min(now - startTime, totalTime); r sets startTime to now; resuming sets
\* startTime to now - elapsedTime and keeps elapsedTime, so the time spent
\* paused is not counted; elapsedTime never decreases except on r.
C22_WallClockElapsed ==
  /\ [](Running(m) => m.elapsedTime <= now - m.startTime)
  /\ [][now' = now =>
          /\ (msg' = "tick" /\ Running(m)) =>
               m'.elapsedTime = Min(now - m.startTime, m.totalTime)
          /\ msg' = "r" => m'.startTime = now
          /\ (msg' = "highlight" /\ Paused(m) /\ Running(m')) =>
               /\ m'.elapsedTime = m.elapsedTime
               /\ m'.startTime = now - m.elapsedTime
          /\ msg' # "r" => m'.elapsedTime >= m.elapsedTime]_vars

\* A timer paused part-way through has just been resumed, later than it
\* was paused.
C22_Witness ==
  /\ msg = "highlight"
  /\ Paused(prev)
  /\ Running(m)
  /\ m.elapsedTime > 0
  /\ m.startTime = now - m.elapsedTime
  /\ m.startTime > prev.startTime

\* ------------------------------- claims about the key-highlight version
\* The fields main.go's model has.
Core(mm) ==
  [totalTime |-> mm.totalTime, elapsedTime |-> mm.elapsedTime,
   isRunning |-> mm.isRunning, isPaused |-> mm.isPaused, blink |-> mm.blink]

\* C21: run on the same tick, blink and key events, the key-highlight
\* version and main.go agree on totalTime, elapsedTime, isRunning,
\* isPaused and blink, on the tick and blink events they schedule and have
\* pending, and on quitting; a highlight expiry changes only highlightKey
\* and highlightUntil and schedules nothing.
C21_HighlightCosmetic ==
  /\ Core(h.m) = m
  /\ Count(h.cmd, "tick") = Count(cmd, "tick")
  /\ Count(h.cmd, "blink") = Count(cmd, "blink")
  /\ h.pending.tick = pending.tick
  /\ h.pending.blink = pending.blink
  /\ h.quit = quit
  /\ msg = "highlight" =>
       /\ Core(h.m) = Core(h.prev)
       /\ h.cmd = nil
       /\ h.m.highlightKey = "" /\ h.m.highlightUntil = zeroTime

\* The highlight of a p press that paused the timer part-way through has
\* just expired.
C21_Witness ==
  /\ msg = "highlight"
  /\ h.prev.highlightKey = "p"
  /\ h.prev.highlightUntil <= now
  /\ h.m.highlightKey = ""
  /\ Paused(m)
  /\ m.elapsedTime > 0
====
